---- MODULE Spec2Model ----
(***************************************************************************)
(* A model of the delivery queue of the AppLogs JavaScript SDK             *)
(* (src/src/queue.ts, class LogQueue, the current variant at lines         *)
(* 242-464) together with the part of Transport (src/src/transport.ts)     *)
(* that the queue observes: send(batch) settles with success or failure    *)
(* and cachedIngestUrl is set once an endpoint was resolved.               *)
(*                                                                         *)
(* One action is one synchronous run of JavaScript: an API call up to its  *)
(* first suspension point, or the continuation of an await.  Promise       *)
(* continuations (microtasks) run before any timer, I/O completion or host *)
(* event (macrotasks); MicrotaskPending is that priority.                  *)
(***************************************************************************)
EXTENDS Naturals, Sequences, FiniteSets

VARIABLES
    host,                    \* what the runtime exposes (window, process, ...)
    batchSizeCfg,            \* config.batchSize, 0 when not configured
    onErrorCfg,              \* config.onError: "none", "returns" or "throws"
    queue,                   \* LogQueue.queue
    isProcessing,            \* LogQueue.isProcessing
    flushIntervalId,         \* LogQueue.flushIntervalId is set
    isServerlessEnvironment, \* LogQueue.isServerlessEnvironment
    cachedIngestUrl,         \* Transport.cachedIngestUrl is set
    inFlight,                \* Transport.send calls whose promise is pending
    fw,                      \* the running flushAndWait() calls
    addCatch,                \* add()'s .catch handlers waiting to run
    nextId,                  \* the next entry accepted is entry nextId
    handed,                  \* the transmission made by the last step, if any
    reported,                \* the failedBatch of each onError call of the last step
    escaped,                 \* the failure the last step let out of the queue: "none",
                             \* "exception" (thrown out of a handler), "rejection"
                             \* (a promise rejection nobody handles) or "caller"
                             \* (the promise that flush() or addAsync() returned to
                             \* the application rejects)
    drains,                  \* how often the handlers of the last step ran the draining
    destroyed,               \* history: destroy() was called
    alive,                   \* the host process has not exited
    graph,                   \* serializeObject(): the object graph of its argument
    maxDepth,                \* serializeObject(): options.maxDepth
    result,                  \* serializeObject(): what the call returned or threw
    firstKey,                \* serializeObject(): the name of the first key of the
                             \* records of the argument
    restored,                \* deserializeObject(): what the call returned
    globalContext,           \* AppLogs.globalContext: the keys it holds
    metadata,                \* metadata.context of the LogEntry that the last log
                             \* call created and gave to the queue
    maxRetriesCfg,           \* Transport.config.maxRetries
    now,                     \* Date.now(), in units of the model
    lastEndpointFetch,       \* Transport.lastEndpointFetch
    sending,                 \* the Transport.send() call that is looked at
    io                       \* the network exchange that the last step started:
                             \* "none", "discovery" or "transmit"

queueVars == <<host, batchSizeCfg, onErrorCfg, queue, isProcessing, flushIntervalId,
               isServerlessEnvironment, cachedIngestUrl, inFlight, fw, addCatch,
               nextId, handed, reported, escaped, drains, destroyed, alive>>
serVars == <<graph, maxDepth, result, firstKey, restored>>
appVars == <<globalContext, metadata>>
transportVars == <<maxRetriesCfg, now, lastEndpointFetch, sending, io>>
vars == <<queueVars, serVars, appVars, transportVars>>

cfgVars == <<host, batchSizeCfg, onErrorCfg, isServerlessEnvironment>>
flushVars == <<queue, isProcessing, inFlight>>

-----------------------------------------------------------------------------
(* Bounds of the model *)

MaxEntries == 5
MaxWaiters == 1
CallCap == 4
MaxNodes == 2         \* objects in the graph given to serializeObject()
MaxDepthOption == 2   \* options.maxDepth is drawn from 0..MaxDepthOption
MaxClock == 4         \* Date.now() runs from 0 to MaxClock
CacheDuration == 2    \* config.endpointCacheDuration, in units of the clock

(* Constants of the program *)

maxRetries == 3
TransportMaxRetries == 3
RequeueLimit == 3
DefaultBatchSize == 5
ServerlessBatchSize == 1

Entries == 1..MaxEntries
Waiters == 1..MaxWaiters
BatchSizes == {0, 2}
OnErrorKinds == {"none", "returns", "throws"}

(* The runtimes the library is loaded in.  hasProcess: typeof process is   *)
(* not 'undefined'; envIndicator: one of the serverless environment        *)
(* variables is set; isTTY: global.process.stdout.isTTY; beacon:           *)
(* navigator.sendBeacon exists; xhr: XMLHttpRequest exists.                *)
Hosts ==
    { [name |-> "browser", hasWindow |-> TRUE, hasProcess |-> FALSE,
       envIndicator |-> FALSE, isTTY |-> FALSE, beacon |-> TRUE, xhr |-> TRUE],
      [name |-> "legacyBrowser", hasWindow |-> TRUE, hasProcess |-> FALSE,
       envIndicator |-> FALSE, isTTY |-> FALSE, beacon |-> FALSE, xhr |-> TRUE],
      [name |-> "node", hasWindow |-> FALSE, hasProcess |-> TRUE,
       envIndicator |-> FALSE, isTTY |-> TRUE, beacon |-> FALSE, xhr |-> FALSE],
      [name |-> "lambda", hasWindow |-> FALSE, hasProcess |-> TRUE,
       envIndicator |-> TRUE, isTTY |-> FALSE, beacon |-> FALSE, xhr |-> FALSE] }

-----------------------------------------------------------------------------
(* Helpers *)

Min(a, b) == IF a <= b THEN a ELSE b
Range(s) == {s[i] : i \in 1..Len(s)}
Take(s, n) == SubSeq(s, 1, Min(n, Len(s)))
RemoveAt(s, i) == SubSeq(s, 1, i - 1) \o SubSeq(s, i + 1, Len(s))
Caller(kind, arg) == [kind |-> kind, arg |-> arg]

(* detectEnvironment(): the host profile, computed once by the constructor *)
DetectEnvironment(h) ==
    \/ ~h.hasProcess
    \/ h.envIndicator
    \/ ~h.isTTY

(* a batchSize whose defaults are chosen with the profile test inverted *)
BatchSizeSwapped ==
    IF ~isServerlessEnvironment
    THEN (IF batchSizeCfg # 0 THEN batchSizeCfg ELSE ServerlessBatchSize)
    ELSE (IF batchSizeCfg # 0 THEN batchSizeCfg ELSE DefaultBatchSize)

(* the batchSize local of add() *)
BatchSize ==
    IF isServerlessEnvironment
    THEN (IF batchSizeCfg # 0 THEN batchSizeCfg ELSE ServerlessBatchSize)
    ELSE (IF batchSizeCfg # 0 THEN batchSizeCfg ELSE DefaultBatchSize)

(* a promise continuation is queued: it runs before any macrotask *)
MicrotaskPending ==
    \/ addCatch # <<>>
    \/ \E w \in Waiters : fw[w].pc \in {"readyOk", "readyErr"}

IdleWaiter == [pc |-> "idle", retries |-> 0, calls |-> 0]

(* a step that lets nothing escape and runs no teardown handler *)
Quiet == escaped' = "none" /\ drains' = 0

(* what a step hands to a transmission primitive *)
NoTx == [via |-> "none", batch |-> <<>>]
Tx(via, batch) == [via |-> via, batch |-> batch]

-----------------------------------------------------------------------------
(* flush(), up to its await.  q is the buffer at the call. *)

\* a flush() that detaches no more than three entries
CallFlushPartial(q, caller) ==
    IF ~isProcessing /\ q # <<>>
    THEN /\ isProcessing' = TRUE
         /\ queue' = IF Len(q) > 3 THEN SubSeq(q, 4, Len(q)) ELSE <<>>
         /\ inFlight' = Append(inFlight, [batch |-> SubSeq(q, 1, IF Len(q) > 3 THEN 3 ELSE Len(q)),
                                          by |-> caller])
         /\ handed' = Tx("send", SubSeq(q, 1, IF Len(q) > 3 THEN 3 ELSE Len(q)))
    ELSE /\ queue' = q
         /\ handed' = NoTx
         /\ UNCHANGED <<isProcessing, inFlight>>

\* a flush() whose guard forgets the in-flight flag
CanFlushUnguarded(q) == q # <<>>

\* the guard of flush() passes: no flush is running and the buffer is not empty
CanFlush(q) == ~isProcessing /\ q # <<>>

CallFlush(q, caller) ==
    IF CanFlush(q)
    THEN /\ isProcessing' = TRUE
         /\ queue' = <<>>
         /\ inFlight' = Append(inFlight, [batch |-> q, by |-> caller])
         /\ handed' = Tx("send", q)
    ELSE /\ queue' = q
         /\ handed' = NoTx
         /\ UNCHANGED <<isProcessing, inFlight>>

-----------------------------------------------------------------------------
\* a constructor that installs the interval under every host profile
SetupAutoFlushAlways(serverless) == TRUE

\* setupAutoFlush(): the interval is installed
SetupAutoFlush(serverless) == ~serverless

\* the LogQueue after its constructor
Constructed ==
    /\ host \in Hosts
    /\ batchSizeCfg \in BatchSizes
    /\ onErrorCfg \in OnErrorKinds
    /\ queue = <<>>
    /\ isProcessing = FALSE
    /\ isServerlessEnvironment = DetectEnvironment(host)
    /\ flushIntervalId = SetupAutoFlush(DetectEnvironment(host))
    /\ cachedIngestUrl = FALSE
    /\ inFlight = <<>>
    /\ fw = [w \in Waiters |-> IdleWaiter]
    /\ addCatch = <<>>
    /\ nextId = 1
    /\ handed = NoTx
    /\ reported = <<>>
    /\ escaped = "none"
    /\ drains = 0
    /\ destroyed = FALSE
    /\ alive = TRUE

\* the AppLogs object after its constructor, before any log call
NotLogging ==
    /\ globalContext = {}
    /\ metadata = {}

\* no Transport.send() call is being looked at
NoSend == [pc |-> "idle", attempt |-> 0, sent |-> 0, won |-> FALSE, nowAtCall |-> 0]

\* the Transport after its constructor, with the default maxRetries
NotSending ==
    /\ maxRetriesCfg = TransportMaxRetries
    /\ now = 0
    /\ lastEndpointFetch = 0
    /\ sending = NoSend
    /\ io = "none"

\* no serializeObject() call is being looked at
NotSerializing ==
    /\ graph = [n \in 1..MaxNodes |-> [kind |-> "Object", kids |-> <<>>]]
    /\ maxDepth = 0
    /\ result = [done |-> FALSE, raised |-> FALSE,
                 out |-> [t |-> "prim", ctor |-> "", ref |-> 0, kids |-> <<>>]]
    /\ firstKey = "a"
    /\ restored = [done |-> FALSE, value |-> [t |-> "prim", keys |-> <<>>, kids |-> <<>>]]

Init == Constructed /\ NotSerializing /\ NotLogging /\ NotSending

(* add(logEntry) *)
QueueAdd ==
    /\ alive
    /\ Quiet
    /\ nextId <= MaxEntries
    /\ nextId' = nextId + 1
    /\ LET q1 == Append(queue, nextId) IN
         IF Len(q1) >= BatchSize
         THEN CallFlush(q1, Caller("add", nextId))
         ELSE queue' = q1 /\ handed' = NoTx /\ UNCHANGED <<isProcessing, inFlight>>
    /\ reported' = <<>>
    /\ UNCHANGED <<cfgVars, flushIntervalId, cachedIngestUrl, fw, addCatch,
                   destroyed, alive>>

\* add(logEntry) called with an entry that the model does not look into
Add == QueueAdd /\ UNCHANGED <<serVars, appVars, transportVars>>

(* addAsync(logEntry): the length test is true after the push *)
QueueAddAsync ==
    /\ alive
    /\ Quiet
    /\ nextId <= MaxEntries
    /\ nextId' = nextId + 1
    /\ LET q1 == Append(queue, nextId) IN
         IF isServerlessEnvironment \/ Len(q1) >= 1
         THEN CallFlush(q1, Caller("addAsync", nextId))
         ELSE queue' = q1 /\ handed' = NoTx /\ UNCHANGED <<isProcessing, inFlight>>
    /\ reported' = <<>>
    /\ UNCHANGED <<cfgVars, flushIntervalId, cachedIngestUrl, fw, addCatch,
                   destroyed, alive>>

\* addAsync(logEntry) called with an entry that the model does not look into
AddAsync == QueueAddAsync /\ UNCHANGED <<serVars, appVars, transportVars>>

(* flush() called by the application *)
Flush ==
    /\ alive
    /\ UNCHANGED <<serVars, appVars, transportVars>>
    /\ Quiet
    /\ CallFlush(queue, Caller("flush", 0))
    /\ reported' = <<>>
    /\ UNCHANGED <<cfgVars, flushIntervalId, cachedIngestUrl, fw, addCatch, nextId,
                   destroyed, alive>>

(* the setInterval callback installed by setupAutoFlush() *)
Tick ==
    /\ alive
    /\ UNCHANGED <<serVars, appVars, transportVars>>
    /\ Quiet
    /\ flushIntervalId
    /\ ~MicrotaskPending
    /\ CallFlush(queue, Caller("timer", 0))
    /\ reported' = <<>>
    /\ UNCHANGED <<cfgVars, flushIntervalId, cachedIngestUrl, fw, addCatch, nextId,
                   destroyed, alive>>

-----------------------------------------------------------------------------
(* flush(), after its await: Transport.send settled *)

\* a catch block that requeues the whole failed batch
RequeueWhole(batch, q) ==
    IF ~isServerlessEnvironment THEN batch \o q ELSE q

\* a catch block that requeues under every host profile
RequeueAlways(batch, q) == Take(batch, RequeueLimit) \o q

\* a catch block that puts the failed entries behind the newer ones
RequeueAtEnd(batch, q) ==
    IF ~isServerlessEnvironment THEN q \o Take(batch, RequeueLimit) ELSE q

\* the buffer after the catch block of flush() saw batch fail
Requeue(batch, q) ==
    IF ~isServerlessEnvironment THEN Take(batch, RequeueLimit) \o q ELSE q

\* the onError calls of `if (onError) onError(error, batch)`
OnError(batch) ==
    IF onErrorCfg # "none" THEN <<batch>> ELSE <<>>

\* what escapes a place that calls onError outside any try block
Thrown(how) == IF onErrorCfg = "throws" THEN how ELSE "none"

\* a flush() without its finally block
AfterFinallyKept == isProcessing

\* the in-flight flag after the finally block of flush()
AfterFinally == FALSE

SendSucceeds(i) ==
    /\ alive
    /\ UNCHANGED <<serVars, appVars, transportVars>>
    /\ Quiet
    /\ ~MicrotaskPending
    /\ LET f == inFlight[i] IN
         /\ inFlight' = RemoveAt(inFlight, i)
         /\ isProcessing' = AfterFinally
         /\ cachedIngestUrl' = TRUE
         /\ fw' = IF f.by.kind = "wait"
                  THEN [fw EXCEPT ![f.by.arg].pc = "readyOk"]
                  ELSE fw
    /\ handed' = NoTx
    /\ reported' = <<>>
    /\ UNCHANGED <<cfgVars, queue, flushIntervalId, addCatch, nextId, destroyed, alive>>

SendFails(i) ==
    /\ alive
    /\ UNCHANGED <<serVars, appVars, transportVars>>
    /\ drains' = 0
    /\ ~MicrotaskPending
    /\ \E resolved \in BOOLEAN : cachedIngestUrl' = (cachedIngestUrl \/ resolved)
    /\ LET f == inFlight[i]
           rejects == onErrorCfg = "throws"
       IN
         /\ inFlight' = RemoveAt(inFlight, i)
         /\ queue' = Requeue(f.batch, queue)
         /\ reported' = OnError(f.batch)
         /\ isProcessing' = AfterFinally
         /\ fw' = IF f.by.kind = "wait"
                  THEN [fw EXCEPT ![f.by.arg].pc =
                            IF rejects THEN "readyErr" ELSE "readyOk"]
                  ELSE fw
         /\ addCatch' = IF rejects /\ f.by.kind = "add"
                        THEN Append(addCatch, f.by.arg)
                        ELSE addCatch
         /\ escaped' = IF rejects /\ f.by.kind \in {"addAsync", "flush"}
                       THEN "caller"
                       ELSE "none"
    /\ handed' = NoTx
    /\ UNCHANGED <<cfgVars, flushIntervalId, nextId, destroyed, alive>>

(* the .catch handler of add(): onError(error, [logEntry]) *)
AddCatchRuns ==
    /\ alive
    /\ UNCHANGED <<serVars, appVars, transportVars>>
    /\ addCatch # <<>>
    /\ reported' = OnError(<<Head(addCatch)>>)
    /\ escaped' = Thrown("rejection")
    /\ drains' = 0
    /\ addCatch' = Tail(addCatch)
    /\ handed' = NoTx
    /\ UNCHANGED <<cfgVars, flushVars, flushIntervalId, cachedIngestUrl, fw, nextId,
                   destroyed, alive>>

-----------------------------------------------------------------------------
(* flushAndWait() *)

\* flushAndWait() returned: its locals are gone
Settled(pc) == [pc |-> pc, retries |-> 0, calls |-> 0]

\* a new call of flushAndWait() runs as w: the first one that is not running
Free(w) ==
    /\ fw[w].pc \in {"idle", "resolved", "rejected"}
    /\ \A v \in Waiters : v < w => fw[v].pc \notin {"idle", "resolved", "rejected"}

\* the while loop of flushAndWait() from its test to the next await
WaitLoop(w, r, c) ==
    IF queue # <<>> /\ r < maxRetries
    THEN /\ CallFlush(queue, Caller("wait", w))
         /\ fw' = [fw EXCEPT ![w] =
                     [pc |-> IF CanFlush(queue) THEN "waiting" ELSE "readyOk",
                      retries |-> r,
                      calls |-> Min(c + 1, CallCap)]]
    ELSE /\ fw' = [fw EXCEPT ![w] = Settled("resolved")]
         /\ handed' = NoTx
         /\ UNCHANGED flushVars

FlushAndWait(w) ==
    /\ alive
    /\ UNCHANGED <<serVars, appVars, transportVars>>
    /\ Quiet
    /\ Free(w)
    /\ WaitLoop(w, 0, 0)
    /\ reported' = <<>>
    /\ UNCHANGED <<cfgVars, flushIntervalId, cachedIngestUrl, addCatch, nextId,
                   destroyed, alive>>

\* await this.flush() resolved: the test at line 331, then the loop again
WaiterResumes(w) ==
    /\ alive
    /\ UNCHANGED <<serVars, appVars, transportVars>>
    /\ Quiet
    /\ fw[w].pc = "readyOk"
    /\ IF queue = <<>>
       THEN /\ fw' = [fw EXCEPT ![w] = Settled("resolved")]
            /\ handed' = NoTx
            /\ UNCHANGED flushVars
       ELSE WaitLoop(w, fw[w].retries, fw[w].calls)
    /\ reported' = <<>>
    /\ UNCHANGED <<cfgVars, flushIntervalId, cachedIngestUrl, addCatch, nextId,
                   destroyed, alive>>

\* await this.flush() rejected: the catch block of flushAndWait()
WaiterCatches(w) ==
    /\ alive
    /\ UNCHANGED <<serVars, appVars, transportVars>>
    /\ Quiet
    /\ fw[w].pc = "readyErr"
    /\ LET r1 == fw[w].retries + 1 IN
         IF r1 >= maxRetries
         THEN /\ reported' = OnError(queue)
              /\ fw' = [fw EXCEPT ![w] =
                          Settled(IF onErrorCfg = "throws" THEN "rejected" ELSE "resolved")]
         ELSE /\ fw' = [fw EXCEPT ![w].retries = r1, ![w].pc = "sleeping"]
              /\ reported' = <<>>
    /\ handed' = NoTx
    /\ UNCHANGED <<cfgVars, flushVars, flushIntervalId, cachedIngestUrl, addCatch,
                   nextId, destroyed, alive>>

\* the 100 ms pause is over
WaiterWakes(w) ==
    /\ alive
    /\ UNCHANGED <<serVars, appVars, transportVars>>
    /\ Quiet
    /\ ~MicrotaskPending
    /\ fw[w].pc = "sleeping"
    /\ WaitLoop(w, fw[w].retries, fw[w].calls)
    /\ reported' = <<>>
    /\ UNCHANGED <<cfgVars, flushIntervalId, cachedIngestUrl, addCatch, nextId,
                   destroyed, alive>>

(* destroy() *)
Destroy ==
    /\ alive
    /\ UNCHANGED <<serVars, appVars, transportVars>>
    /\ Quiet
    /\ IF queue # <<>>
       THEN \E w \in Waiters : Free(w) /\ WaitLoop(w, 0, 0)
       ELSE handed' = NoTx /\ UNCHANGED <<flushVars, fw>>
    /\ flushIntervalId' = FALSE
    /\ destroyed' = TRUE
    /\ reported' = <<>>
    /\ UNCHANGED <<cfgVars, cachedIngestUrl, addCatch, nextId, alive>>

-----------------------------------------------------------------------------
(* The teardown handlers registered by setupCleanupHandlers() *)

\* a synchronous send that also carries the batch in flight
FlushWithXHRInFlight(batch) ==
    IF cachedIngestUrl
    THEN Tx("xhr", (IF inFlight # <<>> THEN inFlight[1].batch ELSE <<>>) \o batch)
    ELSE NoTx

\* flushWithXHR(batch): the request is made only to a cached endpoint
FlushWithXHR(batch) ==
    IF cachedIngestUrl THEN Tx("xhr", batch) ELSE NoTx

\* a flushSync() that leaves the detaching to the flush() it calls
FlushSyncLeaves(q) ==
    IF q = <<>>
    THEN /\ queue' = q
         /\ handed' = NoTx
         /\ UNCHANGED <<isProcessing, inFlight>>
    ELSE IF host.xhr
         THEN /\ queue' = <<>>
              /\ handed' = FlushWithXHR(q)
              /\ UNCHANGED <<isProcessing, inFlight>>
         ELSE CallFlush(q, Caller("sync", 0))

\* flushSync(), q is the buffer at the call
FlushSync(q) ==
    IF q = <<>>
    THEN /\ queue' = q
         /\ handed' = NoTx
         /\ UNCHANGED <<isProcessing, inFlight>>
    ELSE IF host.xhr
         THEN /\ queue' = <<>>
              /\ handed' = FlushWithXHR(q)
              /\ UNCHANGED <<isProcessing, inFlight>>
         ELSE CallFlush(<<>>, Caller("sync", 0))

\* flushWithBeacon(): threw is an exception of JSON.stringify or sendBeacon
FlushWithBeacon(threw) ==
    IF queue = <<>>
    THEN handed' = NoTx /\ UNCHANGED flushVars
    ELSE IF threw
         THEN FlushSync(<<>>)
         ELSE /\ queue' = <<>>
              /\ handed' = IF cachedIngestUrl THEN Tx("beacon", queue) ELSE NoTx
              /\ UNCHANGED <<isProcessing, inFlight>>

\* beforeunload / pagehide: flushOnUnload
PageUnload ==
    /\ alive
    /\ UNCHANGED <<serVars, appVars, transportVars>>
    /\ ~MicrotaskPending
    /\ host.hasWindow
    /\ IF host.beacon
       THEN \E threw \in BOOLEAN : FlushWithBeacon(threw)
       ELSE FlushSync(queue)
    /\ reported' = <<>>
    /\ escaped' = "none"
    /\ drains' = 1
    /\ UNCHANGED <<cfgVars, flushIntervalId, cachedIngestUrl, fw, addCatch, nextId,
                   destroyed, alive>>

\* beforeExit: the event loop has nothing left to run
BeforeExit ==
    /\ alive
    /\ UNCHANGED <<serVars, appVars, transportVars>>
    /\ ~MicrotaskPending
    /\ ~host.hasWindow /\ host.hasProcess
    /\ ~flushIntervalId
    /\ inFlight = <<>>
    /\ \A w \in Waiters : fw[w].pc \in {"idle", "resolved", "rejected"}
    /\ FlushSync(queue)
    /\ reported' = <<>>
    /\ escaped' = "none"
    /\ drains' = 1
    /\ UNCHANGED <<cfgVars, flushIntervalId, cachedIngestUrl, fw, addCatch, nextId,
                   destroyed, alive>>

\* the exit event: flushOnExit
ProcessExit ==
    /\ alive
    /\ UNCHANGED <<serVars, appVars, transportVars>>
    /\ ~host.hasWindow /\ host.hasProcess
    /\ FlushSync(queue)
    /\ alive' = FALSE
    /\ reported' = <<>>
    /\ escaped' = "none"
    /\ drains' = 1
    /\ UNCHANGED <<cfgVars, flushIntervalId, cachedIngestUrl, fw, addCatch, nextId,
                   destroyed>>

\* SIGINT / SIGTERM: flushSync() and process.exit(0), whose exit event runs
\* flushOnExit on the buffer that the first flushSync() left empty
Signal ==
    /\ alive
    /\ UNCHANGED <<serVars, appVars, transportVars>>
    /\ ~host.hasWindow /\ host.hasProcess
    /\ ~MicrotaskPending
    /\ FlushSync(queue)
    /\ alive' = FALSE
    /\ reported' = <<>>
    /\ escaped' = "none"
    /\ drains' = 2
    /\ UNCHANGED <<cfgVars, flushIntervalId, cachedIngestUrl, fw, addCatch, nextId,
                   destroyed>>

\* uncaughtException: onError(error, []) and then flushSync().  A callback
\* that throws leaves the handler before flushSync() and ends the process;
\* exitRuns: the runtime still emits exit, whose handler runs flushSync()
UncaughtException ==
    /\ alive
    /\ UNCHANGED <<serVars, appVars, transportVars>>
    /\ ~host.hasWindow /\ host.hasProcess
    /\ reported' = OnError(<<>>)
    /\ escaped' = Thrown("exception")
    /\ IF onErrorCfg = "throws"
       THEN /\ alive' = FALSE
            /\ \E exitRuns \in BOOLEAN :
                 IF exitRuns
                 THEN FlushSync(queue) /\ drains' = 1
                 ELSE handed' = NoTx /\ drains' = 0 /\ UNCHANGED flushVars
       ELSE /\ alive' = TRUE
            /\ FlushSync(queue)
            /\ drains' = 1
    /\ UNCHANGED <<cfgVars, flushIntervalId, cachedIngestUrl, fw, addCatch, nextId,
                   destroyed>>

-----------------------------------------------------------------------------
Next ==
    \/ Add
    \/ AddAsync
    \/ Flush
    \/ Tick
    \/ \E i \in 1..Len(inFlight) : SendSucceeds(i)
    \/ \E i \in 1..Len(inFlight) : SendFails(i)
    \/ AddCatchRuns
    \/ \E w \in Waiters : FlushAndWait(w)
    \/ \E w \in Waiters : WaiterResumes(w)
    \/ \E w \in Waiters : WaiterCatches(w)
    \/ \E w \in Waiters : WaiterWakes(w)
    \/ Destroy
    \/ PageUnload
    \/ BeforeExit
    \/ ProcessExit
    \/ Signal
    \/ UncaughtException

Spec == Init /\ [][Next]_vars

(* The scheduling of the event loop: a pending continuation runs, a pending  *)
(* Transport.send settles (the Sender has its own timeout), an installed     *)
(* interval timer fires again, a pause ends.  Nothing obliges the            *)
(* application to call the queue or the host to end.                         *)
Fairness ==
    /\ WF_vars(Tick)
    /\ WF_vars(\E i \in 1..Len(inFlight) : SendSucceeds(i) \/ SendFails(i))
    /\ WF_vars(AddCatchRuns)
    /\ \A w \in Waiters : WF_vars(WaiterResumes(w))
    /\ \A w \in Waiters : WF_vars(WaiterCatches(w))
    /\ \A w \in Waiters : WF_vars(WaiterWakes(w))

FairSpec == Init /\ [][Next]_vars /\ Fairness

(* An application that ends the queue with destroy() and never calls       *)
(* flushAndWait() itself: every flushAndWait() that runs was started by    *)
(* destroy().                                                              *)
DestroyNext ==
    \/ Add
    \/ AddAsync
    \/ Flush
    \/ Tick
    \/ \E i \in 1..Len(inFlight) : SendSucceeds(i)
    \/ \E i \in 1..Len(inFlight) : SendFails(i)
    \/ AddCatchRuns
    \/ \E w \in Waiters : WaiterResumes(w)
    \/ \E w \in Waiters : WaiterCatches(w)
    \/ \E w \in Waiters : WaiterWakes(w)
    \/ Destroy
    \/ PageUnload
    \/ BeforeExit
    \/ ProcessExit
    \/ Signal
    \/ UncaughtException

DestroySpec == Init /\ [][DestroyNext]_vars

-----------------------------------------------------------------------------
(* serializeObject(obj, options) of serialize-complex.ts                   *)

(* The argument is object 1 of a graph of objects.  An object is a plain   *)
(* record or an array, and holds up to two values: a primitive ("p"), a    *)
(* Date in an invalid state ("bad": its toISOString() throws), an instance *)
(* of a class that has a custom serializer ("custom"), or a reference to   *)
(* an object of the graph.  Each "bad" or "custom" value is an object of   *)
(* its own, referenced from this one place only.                           *)
Nodes == 1..MaxNodes
Leaf(x) == [k |-> x, n |-> 0]
Ref(n) == [k |-> "ref", n |-> n]
Values == {Leaf(x) : x \in {"p", "bad", "custom"}} \cup {Ref(n) : n \in Nodes}
KidSeqs == {<<>>} \cup {<<a>> : a \in Values} \cup {<<a, b>> : a \in Values, b \in Values}
Graphs == [Nodes -> [kind : {"Object", "Array"}, kids : KidSeqs]]

\* value.constructor?.name
ConstructorName(value) ==
    IF value.k = "bad" THEN "Date"
    ELSE IF value.k = "custom" THEN "CustomClass"
    ELSE graph[value.n].kind

(* The nodes of the returned tree *)
Out(t, ctor, ref, kids) == [t |-> t, ctor |-> ctor, ref |-> ref, kids |-> kids]
Prim == Out("prim", "", 0, <<>>)
\* { __circular: true, __ref: id }
Circular(id) == Out("circular", "", id, <<>>)
\* { __type: 'MaxDepthExceeded', constructor }
MaxDepthExceeded(ctor) == Out("maxDepth", ctor, 0, <<>>)
\* { __type: 'PropertyAccessError', error, key }
PropertyAccessError == Out("propErr", "", 0, <<>>)
\* an application value that no serialize() call has converted
Raw(kids) == Out("raw", "", 0, kids)
\* what customSerializer(value) returns: a record the handler builds from
\* the properties of value, here customProp: obj.customProp = { x: { y } }
CustomOutput == Out("custom", "CustomClass", 0, <<Raw(<<Raw(<<Prim>>)>>)>>)
\* no value: the call threw
NoOut == Out("thrown", "", 0, <<>>)

\* a circular check that never finds the value
SeenHasNothing(seen, n) == FALSE

\* seen.has(value)
SeenHas(seen, n) == n \in seen

\* a serialize() that leaves the value in seen when it returns
FinallyKeeps(seen, n) == seen

\* finally { seen.delete(value) }
Finally(seen, n) == seen \ {n}

\* a lookup that finds no id: every marker gets a new one
CircularRefsGetNothing(refs, n) == Len(refs) + 1

\* circularRefs.get(value) || Math.random().toString(36).  refs lists the
\* objects that have an id, the id of an object is its position; a new id
\* differs from every id given before
CircularRefsGet(refs, n) ==
    IF \E i \in 1..Len(refs) : refs[i] = n
    THEN CHOOSE i \in 1..Len(refs) : refs[i] = n
    ELSE Len(refs) + 1

\* circularRefs.set(value, id)
CircularRefsSet(refs, n, id) == IF id <= Len(refs) THEN refs ELSE Append(refs, n)

\* a depth check that lets one more level through
DepthExceededLate(depth) == depth > maxDepth

\* if (depth >= maxDepth)
DepthExceeded(depth) == depth >= maxDepth

\* a per-property catch that is missing: the failure aborts the record
CaughtNever(kind) == FALSE

\* the elements of a record are converted inside a try/catch each, those
\* of an array inside value.map() with none
Caught(kind) == kind = "Object"

(* serialize(value, depth) with the seen set and the circularRefs map, and *)
(* the loop over the values of one object.  Both return the seen set and   *)
(* the map they leave; ok is FALSE when an exception leaves them.          *)
RECURSIVE serialize(_, _, _, _), serializeAll(_, _, _, _, _)
serializeAll(kids, depth, seen, refs, caught) ==
    IF kids = <<>>
    THEN [outs |-> <<>>, ok |-> TRUE, seen |-> seen, refs |-> refs]
    ELSE LET r == serialize(Head(kids), depth, seen, refs) IN
           IF ~r.ok /\ ~caught
           THEN [outs |-> <<>>, ok |-> FALSE, seen |-> r.seen, refs |-> r.refs]
           ELSE LET rest == serializeAll(Tail(kids), depth, r.seen, r.refs, caught) IN
                  [outs |-> <<IF r.ok THEN r.out ELSE PropertyAccessError>> \o rest.outs,
                   ok |-> rest.ok,
                   seen |-> rest.seen,
                   refs |-> rest.refs]

serialize(value, depth, seen, refs) ==
    IF value.k = "p"
    THEN [out |-> Prim, ok |-> TRUE, seen |-> seen, refs |-> refs]
    ELSE IF value.k = "ref" /\ SeenHas(seen, value.n)
    THEN LET id == CircularRefsGet(refs, value.n) IN
           [out |-> Circular(id), ok |-> TRUE, seen |-> seen,
            refs |-> CircularRefsSet(refs, value.n, id)]
    ELSE IF DepthExceeded(depth)
    THEN [out |-> MaxDepthExceeded(ConstructorName(value)), ok |-> TRUE,
          seen |-> seen, refs |-> refs]
    ELSE IF value.k = "bad"
    THEN [out |-> NoOut, ok |-> FALSE, seen |-> seen, refs |-> refs]
    ELSE IF value.k = "custom"
    THEN [out |-> CustomOutput, ok |-> TRUE, seen |-> seen, refs |-> refs]
    ELSE LET node == graph[value.n]
             r == serializeAll(node.kids, depth + 1, seen \cup {value.n}, refs,
                               Caught(node.kind))
         IN [out |-> IF r.ok
                     THEN Out(IF node.kind = "Array" THEN "arr" ELSE "obj",
                              "", 0, r.outs)
                     ELSE NoOut,
             ok |-> r.ok,
             seen |-> Finally(r.seen, value.n),
             refs |-> r.refs]

\* no deserializeObject() call has returned
NotRestored == [done |-> FALSE, value |-> [t |-> "prim", keys |-> <<>>, kids |-> <<>>]]

\* serializeObject(obj, options): return serialize(obj)
SerializeObject ==
    /\ ~result.done
    /\ LET r == serialize(Ref(1), 0, {}, <<>>) IN
         result' = [done |-> TRUE, raised |-> ~r.ok, out |-> r.out]
    /\ UNCHANGED <<graph, maxDepth, firstKey, restored>>
    /\ UNCHANGED <<queueVars, appVars, transportVars>>

\* the objects that the objects of set S reference, and S
Referenced(g, S) ==
    S \cup ({v.n : v \in UNION {Range(g[m].kids) : m \in S}} \cap Nodes)

\* the objects that object 1 reaches in at most k references
RECURSIVE Reached(_, _)
Reached(g, k) == IF k = 0 THEN {1} ELSE Referenced(g, Reached(g, k - 1))

\* a call of serializeObject() on any graph, in a process whose queue is
\* idle; an object that the argument does not reach is left empty
SerInit ==
    /\ Constructed
    /\ host.name = "node" /\ batchSizeCfg = 0 /\ onErrorCfg = "none"
    /\ graph \in Graphs
    /\ \A n \in Nodes \ Reached(graph, MaxNodes) :
          graph[n] = [kind |-> "Object", kids |-> <<>>]
    /\ maxDepth \in 0..MaxDepthOption
    /\ result = [done |-> FALSE, raised |-> FALSE, out |-> Prim]
    /\ firstKey = "a"
    /\ restored = NotRestored
    /\ NotLogging
    /\ NotSending

SerNext == SerializeObject

SerSpec == SerInit /\ [][SerNext]_vars

-----------------------------------------------------------------------------
(* deserializeObject(serialized) of serialize-complex.ts                   *)

\* the keys that may be the first key of a record; the second key is "b"
Keys == {"a", "__type"}

\* Object.getOwnPropertyNames(value) of a record with n values
KeysOf(n) == SubSeq(<<firstKey, "b">>, 1, n)

(* The values that deserializeObject() returns: a primitive, an array, or  *)
(* a record with its keys and their values in the same order               *)
Val(t, keys, kids) == [t |-> t, keys |-> keys, kids |-> kids]
PrimVal == Val("prim", <<>>, <<>>)

(* deserializeObject(serialized), and its loop over the keys of a record,  *)
(* which skips the key __type.  A primitive of the model is no type name   *)
(* of the switch at line 381.                                              *)
RECURSIVE deserializeObject(_), deserializeKeys(_, _)
deserializeKeys(keys, kids) ==
    IF keys = <<>>
    THEN [keys |-> <<>>, kids |-> <<>>]
    ELSE LET rest == deserializeKeys(Tail(keys), Tail(kids)) IN
           IF Head(keys) = "__type"
           THEN rest
           ELSE [keys |-> <<Head(keys)>> \o rest.keys,
                 kids |-> <<deserializeObject(Head(kids))>> \o rest.kids]

deserializeObject(serialized) ==
    IF serialized.t = "prim"
    THEN PrimVal
    ELSE IF serialized.t = "circular"
    THEN Val("obj", <<"__circular_ref">>, <<PrimVal>>)
    ELSE IF serialized.t = "arr"
    THEN Val("arr", <<>>, [i \in 1..Len(serialized.kids) |->
                              deserializeObject(serialized.kids[i])])
    ELSE LET keys == IF serialized.t = "obj" THEN KeysOf(Len(serialized.kids))
                     ELSE IF serialized.t = "maxDepth" THEN <<"__type", "constructor">>
                     ELSE IF serialized.t = "propErr" THEN <<"__type", "error", "key">>
                     ELSE IF serialized.t = "custom" THEN <<"__type", "customProp", "timestamp">>
                     ELSE SubSeq(<<"x", "y">>, 1, Len(serialized.kids))
             kids == IF serialized.t = "obj" THEN serialized.kids
                     ELSE IF serialized.t = "maxDepth" THEN <<Prim, Prim>>
                     ELSE IF serialized.t = "propErr" THEN <<Prim, Prim, Prim>>
                     ELSE IF serialized.t = "custom" THEN <<Prim>> \o serialized.kids \o <<Prim>>
                     ELSE serialized.kids
             r == deserializeKeys(keys, kids)
         IN Val("obj", r.keys, r.kids)

\* deserializeObject(serializeObject(obj)): the second call
DeserializeObject ==
    /\ result.done /\ ~result.raised
    /\ ~restored.done
    /\ restored' = [done |-> TRUE, value |-> deserializeObject(result.out)]
    /\ UNCHANGED <<graph, maxDepth, result, firstKey>>
    /\ UNCHANGED <<queueVars, appVars, transportVars>>

\* the deepest nesting of an object below object n of an acyclic graph
RECURSIVE DepthFrom(_)
DepthFrom(n) ==
    LET below == {graph[n].kids[i].n : i \in {j \in 1..Len(graph[n].kids) :
                                               graph[n].kids[j].k = "ref"}}
    IN IF below = {} THEN 0
       ELSE 1 + (CHOOSE d \in {DepthFrom(m) : m \in below} :
                    \A e \in {DepthFrom(m) : m \in below} : e <= d)

\* object 1 reaches no object along a cycle
RECURSIVE NoCycleFrom(_, _)
NoCycleFrom(n, path) ==
    \A i \in 1..Len(graph[n].kids) :
        graph[n].kids[i].k = "ref" =>
            /\ graph[n].kids[i].n \notin path \cup {n}
            /\ NoCycleFrom(graph[n].kids[i].n, path \cup {n})

\* a round trip of an acyclic graph of plain records, arrays and
\* primitives whose depth is below maxDepth, under any first key
RoundInit ==
    /\ Constructed
    /\ host.name = "node" /\ batchSizeCfg = 0 /\ onErrorCfg = "none"
    /\ graph \in Graphs
    /\ \A n \in Nodes : \A i \in 1..Len(graph[n].kids) :
          graph[n].kids[i].k \in {"p", "ref"}
    /\ \A n \in Nodes \ Reached(graph, MaxNodes) :
          graph[n] = [kind |-> "Object", kids |-> <<>>]
    /\ NoCycleFrom(1, {})
    /\ maxDepth \in 0..MaxDepthOption
    /\ DepthFrom(1) < maxDepth
    /\ result = [done |-> FALSE, raised |-> FALSE, out |-> Prim]
    /\ firstKey \in Keys
    /\ restored = NotRestored
    /\ NotLogging
    /\ NotSending

RoundNext == SerializeObject \/ DeserializeObject

RoundSpec == RoundInit /\ [][RoundNext]_vars

-----------------------------------------------------------------------------
(* The logging API of AppLogs (src/src/applogs.ts)                         *)

(* A Context is a record of application values.  globalContext is modelled *)
(* by its keys: "a" is also the first key of the per-call context, "g" is  *)
(* not.  The per-call context is object 1 of graph.  metadata.context is a *)
(* set of pairs <<key, value>>, a value being a node of a serializer       *)
(* output or a raw application value.                                      *)
GKeys == {"a", "g"}
Contexts == SUBSET GKeys

\* setContext(context)
SetContext(context) ==
    /\ alive
    /\ globalContext' = context
    /\ UNCHANGED <<metadata, queueVars, serVars, transportVars>>

\* addContext(context)
AddContext(context) ==
    /\ alive
    /\ globalContext' = globalContext \cup context
    /\ UNCHANGED <<metadata, queueVars, serVars, transportVars>>

\* removeContext(keys)
RemoveContext(keys) ==
    /\ alive
    /\ globalContext' = globalContext \ keys
    /\ UNCHANGED <<metadata, queueVars, serVars, transportVars>>

\* clearContext()
ClearContext ==
    /\ alive
    /\ globalContext' = {}
    /\ UNCHANGED <<metadata, queueVars, serVars, transportVars>>

\* createLogEntry(): { ...this.globalContext, ...serializeObject(context) };
\* the call passes no context when withContext is FALSE
CreateLogEntry(withContext) ==
    LET r == serialize(Ref(1), 0, {}, <<>>)
        own == IF withContext
               THEN {<<KeysOf(Len(r.out.kids))[i], r.out.kids[i]>> :
                        i \in 1..Len(r.out.kids)}
               ELSE {}
    IN {<<k, Raw(<<>>)>> : k \in globalContext \ {p[1] : p \in own}} \cup own

\* log(level, message, context) and info / warn / error / debug
Log(withContext) ==
    /\ metadata' = CreateLogEntry(withContext)
    /\ QueueAdd
    /\ UNCHANGED <<globalContext, serVars, transportVars>>

\* logAsync(level, message, context) and infoAsync / ... / debugAsync
LogAsync(withContext) ==
    /\ metadata' = CreateLogEntry(withContext)
    /\ QueueAddAsync
    /\ UNCHANGED <<globalContext, serVars, transportVars>>

\* an application that logs with and without a context; the contexts are
\* records of primitives and of one nested record, shallower than the
\* default maxDepth of 10, for which the largest option of the model stands
LogInit ==
    /\ Constructed
    /\ host.name = "node" /\ batchSizeCfg = 2 /\ onErrorCfg = "none"
    /\ graph \in Graphs
    /\ graph[1].kind = "Object"
    /\ \A i \in 1..Len(graph[1].kids) : graph[1].kids[i] \in {Leaf("p"), Ref(2)}
    /\ graph[2] = [kind |-> "Object", kids |-> <<Leaf("p")>>]
    /\ \A n \in Nodes \ {1, 2} : graph[n] = [kind |-> "Object", kids |-> <<>>]
    /\ maxDepth = MaxDepthOption
    /\ result = [done |-> FALSE, raised |-> FALSE, out |-> Prim]
    /\ firstKey = "a"
    /\ restored = NotRestored
    /\ NotLogging
    /\ NotSending

LogNext ==
    \/ \E context \in Contexts : SetContext(context)
    \/ \E context \in Contexts : AddContext(context)
    \/ \E keys \in Contexts : RemoveContext(keys)
    \/ ClearContext
    \/ \E withContext \in BOOLEAN : Log(withContext)
    \/ \E withContext \in BOOLEAN : LogAsync(withContext)
    \/ \E i \in 1..Len(inFlight) : SendSucceeds(i)

LogSpec == LogInit /\ [][LogNext]_vars

-----------------------------------------------------------------------------
(* Transport (src/src/transport.ts): send(payload) and resolveIngestUrl()  *)

(* One send() call at a time is looked at.  sending.pc: "idle", "resolving"*)
(* (the discovery exchange of resolveIngestUrl() is pending), "posting" (a *)
(* transmission attempt is pending), "sleeping" (between two attempts),    *)
(* "resolved" / "rejected" (the promise of send() settled).  attempt is    *)
(* the loop counter, sent the number of transmission attempts made, won    *)
(* whether one of them succeeded.                                          *)
RetryOptions == {0, 1, TransportMaxRetries}

\* everything of the queue but Transport.cachedIngestUrl
queueIdle == <<cfgVars, flushVars, flushIntervalId, fw, addCatch, nextId, handed,
               reported, escaped, drains, destroyed, alive>>

\* a cache test that also expires a URL exactly endpointCacheDuration old
CacheExpiredEarly ==
    \/ ~cachedIngestUrl
    \/ now - lastEndpointFetch >= CacheDuration

\* cacheExpired of resolveIngestUrl()
CacheExpired ==
    \/ ~cachedIngestUrl
    \/ now - lastEndpointFetch > CacheDuration

\* the for loop of send() at its test, with attempt = a
SendLoop(a) ==
    IF a <= maxRetriesCfg
    THEN /\ sending' = [sending EXCEPT !.pc = "posting", !.attempt = a,
                                       !.sent = sending.sent + 1]
         /\ io' = "transmit"
    ELSE /\ sending' = [sending EXCEPT !.pc = "resolved", !.attempt = a]
         /\ io' = "none"

\* send(payload) is called: resolveIngestUrl() up to its first await, or,
\* when the cached URL is used, on into the loop
Send ==
    /\ sending.pc \in {"idle", "resolved", "rejected"}
    /\ IF CacheExpired
       THEN /\ sending' = [NoSend EXCEPT !.pc = "resolving", !.nowAtCall = now]
            /\ io' = "discovery"
       ELSE /\ sending' = [NoSend EXCEPT !.attempt = 1,
                                         !.sent = IF 1 <= maxRetriesCfg THEN 1 ELSE 0,
                                         !.pc = IF 1 <= maxRetriesCfg
                                                THEN "posting" ELSE "resolved"]
            /\ io' = IF 1 <= maxRetriesCfg THEN "transmit" ELSE "none"
    /\ UNCHANGED <<cachedIngestUrl, maxRetriesCfg, now, lastEndpointFetch>>
    /\ UNCHANGED <<queueIdle, serVars, appVars>>

\* the discovery exchange answered with success and an ingestUrl
DiscoverySucceeds ==
    /\ sending.pc = "resolving"
    /\ cachedIngestUrl' = TRUE
    /\ lastEndpointFetch' = sending.nowAtCall
    /\ SendLoop(1)
    /\ UNCHANGED <<maxRetriesCfg, now>>
    /\ UNCHANGED <<queueIdle, serVars, appVars>>

\* the discovery exchange failed, or its answer is not a valid one:
\* resolveIngestUrl() throws and send() rejects
DiscoveryFails ==
    /\ sending.pc = "resolving"
    /\ sending' = [sending EXCEPT !.pc = "rejected"]
    /\ io' = "none"
    /\ UNCHANGED <<cachedIngestUrl, maxRetriesCfg, now, lastEndpointFetch>>
    /\ UNCHANGED <<queueIdle, serVars, appVars>>

\* sendBrowser() / sendNode() resolved: return
TransmitSucceeds ==
    /\ sending.pc = "posting"
    /\ sending' = [sending EXCEPT !.pc = "resolved", !.won = TRUE]
    /\ io' = "none"
    /\ UNCHANGED <<cachedIngestUrl, maxRetriesCfg, now, lastEndpointFetch>>
    /\ UNCHANGED <<queueIdle, serVars, appVars>>

\* sendBrowser() / sendNode() rejected: the catch block of the loop
TransmitFails ==
    /\ sending.pc = "posting"
    /\ sending' = [sending EXCEPT !.pc = IF sending.attempt = maxRetriesCfg
                                         THEN "rejected" ELSE "sleeping"]
    /\ io' = "none"
    /\ UNCHANGED <<cachedIngestUrl, maxRetriesCfg, now, lastEndpointFetch>>
    /\ UNCHANGED <<queueIdle, serVars, appVars>>

\* the sleep between two attempts is over: attempt++ and the loop test
Retry ==
    /\ sending.pc = "sleeping"
    /\ SendLoop(sending.attempt + 1)
    /\ UNCHANGED <<cachedIngestUrl, maxRetriesCfg, now, lastEndpointFetch>>
    /\ UNCHANGED <<queueIdle, serVars, appVars>>

\* time passes
ClockTick ==
    /\ now < MaxClock
    /\ now' = now + 1
    /\ io' = "none"
    /\ UNCHANGED <<cachedIngestUrl, maxRetriesCfg, lastEndpointFetch, sending>>
    /\ UNCHANGED <<queueIdle, serVars, appVars>>

\* a Transport configured with any of the retry options
TransportInit ==
    /\ Constructed
    /\ host.name = "node" /\ batchSizeCfg = 0 /\ onErrorCfg = "none"
    /\ NotSerializing
    /\ NotLogging
    /\ maxRetriesCfg \in RetryOptions
    /\ now = 0
    /\ lastEndpointFetch = 0
    /\ sending = NoSend
    /\ io = "none"

TransportNext ==
    \/ Send
    \/ DiscoverySucceeds
    \/ DiscoveryFails
    \/ TransmitSucceeds
    \/ TransmitFails
    \/ Retry
    \/ ClockTick

TransportSpec == TransportInit /\ [][TransportNext]_vars

-----------------------------------------------------------------------------
(* The claims *)

Sending(e) == \E i \in 1..Len(inFlight) : e \in Range(inFlight[i].batch)

(* C1: in every reachable state at most one Transport.send issued by       *)
(* flush() is outstanding, and one is outstanding only while isProcessing  *)
(* is set.                                                                 *)
C1_AtMostOneSendOutstanding ==
    /\ Len(inFlight) <= 1
    /\ inFlight # <<>> => isProcessing

\* a flush is in flight and add() called flush() again (threshold 1)
C1_Witness ==
    /\ Len(inFlight) = 1
    /\ queue # <<>>
    /\ isServerlessEnvironment
    /\ batchSizeCfg = 0

(* C2: an entry leaves the buffer only in a step that hands it to a        *)
(* transmission (Transport.send, sendBeacon or a synchronous XHR).         *)
C2_LeavesOnlyByTransmission ==
    [][\A e \in Range(queue) \ Range(queue') :
          handed'.via # "none" /\ e \in Range(handed'.batch)]_vars

(* C3: on a queue that is not destroyed, in a host that keeps running,     *)
(* every buffered entry eventually leaves the buffer (by a flush that      *)
(* hands it to the Sender), without any further call of the application.   *)
C3_EventuallyHanded ==
    \A e \in Entries :
        (e \in Range(queue) /\ ~destroyed /\ alive)
            ~> (Sending(e) \/ e \notin Range(queue) \/ destroyed \/ ~alive)

(* C4: when flushAndWait() resolves the buffer is empty and no             *)
(* Transport.send is in flight.                                            *)
C4_ResolvedMeansDrained ==
    [][\A w \in Waiters :
          (fw[w].pc # "resolved" /\ fw'[w].pc = "resolved")
              => (queue' = <<>> /\ inFlight' = <<>>)]_vars

(* C5: one flushAndWait() calls flush() at most maxRetries (3) times.      *)
C5_AtMostThreeFlushCalls ==
    \A w \in Waiters : fw[w].calls <= maxRetries

(* C6: flushAndWait() never rejects, and when it gives up after its        *)
(* retries with entries still buffered it has called onError.              *)
C6_NeverRejects ==
    [][\A w \in Waiters :
          /\ fw'[w].pc # "rejected"
          /\ (fw[w].pc = "readyErr" /\ fw'[w].pc = "resolved" /\ queue' # <<>>)
                => reported' # <<>>]_vars

(* C7: Persistent profile, threshold 5, no flush running: add() on a       *)
(* buffer of fewer than 4 entries causes no Transport.send; add() on a     *)
(* buffer of 4 entries causes exactly one Transport.send, whose batch is   *)
(* the 4 buffered entries followed by the new one.                         *)
C7_ThresholdFive ==
    [][(Add /\ ~isServerlessEnvironment /\ batchSizeCfg \in {0, 5} /\ ~isProcessing)
          => IF Len(queue) < 4
             THEN /\ inFlight' = inFlight
                  /\ handed' = NoTx
                  /\ queue' = Append(queue, nextId)
             ELSE Len(queue) = 4 =>
                  /\ Len(inFlight') = Len(inFlight) + 1
                  /\ inFlight'[Len(inFlight')].batch = Append(queue, nextId)
                  /\ handed' = Tx("send", Append(queue, nextId))
                  /\ queue' = <<>>]_vars

\* the fifth add() has just sent entries 1..5 as one batch
C7_Witness ==
    /\ ~isServerlessEnvironment
    /\ batchSizeCfg = 0
    /\ nextId = 6
    /\ handed = Tx("send", <<1, 2, 3, 4, 5>>)
    /\ inFlight = <<[batch |-> <<1, 2, 3, 4, 5>>, by |-> Caller("add", 5)]>>

(* C8 as stated: Ephemeral profile, any configuration, no flush running:   *)
(* add(entry) starts a flush whose batch contains the entry.               *)
C8_AnyConfiguration ==
    [][(Add /\ isServerlessEnvironment /\ ~isProcessing)
          => /\ handed'.via = "send"
             /\ nextId \in Range(handed'.batch)]_vars

(* C8 amended: Ephemeral profile, no flush running: the threshold is the   *)
(* configured batchSize, and 1 when none is configured; add(entry) starts  *)
(* a flush of the whole buffer, the entry included, exactly when the       *)
(* buffer reaches the threshold, so with no batchSize (or 1) configured    *)
(* every add() on an idle queue flushes at once.                           *)
C8_EphemeralThreshold ==
    [][(Add /\ isServerlessEnvironment /\ ~isProcessing)
          => LET threshold == IF batchSizeCfg = 0 THEN 1 ELSE batchSizeCfg IN
               IF Len(queue) + 1 >= threshold
               THEN /\ handed' = Tx("send", Append(queue, nextId))
                    /\ isProcessing'
                    /\ queue' = <<>>
               ELSE /\ handed' = NoTx
                    /\ inFlight' = inFlight
                    /\ queue' = Append(queue, nextId)]_vars

\* the first add() under an Ephemeral profile with no batchSize has sent entry 1
C8_Witness ==
    /\ isServerlessEnvironment
    /\ batchSizeCfg = 0
    /\ handed = Tx("send", <<1>>)
    /\ inFlight = <<[batch |-> <<1>>, by |-> Caller("add", 1)]>>

(* C9: Persistent profile, Transport.send fails for a batch: the first     *)
(* min(3, |batch|) entries of the batch are put back at the front of the   *)
(* buffer, in order, ahead of what was added meanwhile, and onError (when  *)
(* configured) is called once, with the whole batch.                       *)
C9_PersistentRequeue ==
    [][\A i \in 1..Len(inFlight) :
          (SendFails(i) /\ ~isServerlessEnvironment)
              => LET batch == inFlight[i].batch IN
                   /\ queue' = SubSeq(batch, 1, Min(3, Len(batch))) \o queue
                   /\ onErrorCfg # "none" => reported' = <<batch>>]_vars

\* a batch of 4 failed while entry 5 was added: 1, 2, 3 are back in front of 5
C9_Witness ==
    /\ ~isServerlessEnvironment
    /\ reported = << <<1, 2, 3, 4>> >>
    /\ queue = <<1, 2, 3, 5>>

(* C10: Ephemeral profile, Transport.send fails for a batch: nothing is    *)
(* requeued (the buffer is unchanged and holds only entries accepted after *)
(* the batch was detached) and onError (when configured) is called once,   *)
(* with the failed batch.                                                  *)
C10_EphemeralNoRequeue ==
    [][\A i \in 1..Len(inFlight) :
          (SendFails(i) /\ isServerlessEnvironment)
              => LET batch == inFlight[i].batch IN
                   /\ queue' = queue
                   /\ \A e \in Range(queue'), b \in Range(batch) : e > b
                   /\ onErrorCfg # "none" => reported' = <<batch>>]_vars

\* the batch of entry 1 failed while entry 2 was added: only 2 is buffered
C10_Witness ==
    /\ isServerlessEnvironment
    /\ reported = << <<1>> >>
    /\ queue = <<2>>

-----------------------------------------------------------------------------
(* C11: Persistent profile.  A flush that fails with nothing added since   *)
(* its batch was detached leaves at most 3 entries buffered, all of them   *)
(* requeued from that batch, and calls onError once; and onError is called *)
(* by nothing else than a failing flush, so that k consecutive failed      *)
(* flushes leave at most 3 entries and exactly k onError calls.  (The      *)
(* uncaughtException handler, which reports the host's error, is no part   *)
(* of a run of consecutive flushes.)                                       *)
C11_BoundedBacklog ==
    [][~isServerlessEnvironment =>
          /\ \A i \in 1..Len(inFlight) :
                (SendFails(i) /\ queue = <<>>) =>
                    /\ Len(queue') <= 3
                    /\ Range(queue') \subseteq Range(inFlight[i].batch)
                    /\ onErrorCfg # "none" => Len(reported') = 1
          /\ (reported' # <<>> /\ ~UncaughtException)
                => \E i \in 1..Len(inFlight) : SendFails(i)]_vars

(* C12: onError is called once for every failed delivery attempt of a      *)
(* batch, with that batch, by flush() itself; the handlers that add() and  *)
(* flushAndWait() attach to the flush they trigger do not call it again.   *)
C12_OncePerFailedAttempt ==
    [][/\ \A i \in 1..Len(inFlight) :
            (SendFails(i) /\ onErrorCfg # "none")
                => reported' = <<inFlight[i].batch>>
       /\ AddCatchRuns => reported' = <<>>
       /\ \A w \in Waiters : WaiterCatches(w) => reported' = <<>>]_vars

(* C13: the flushAndWait() that destroy() starts makes no Transport.send   *)
(* beyond the one of its first flush() call, and from destroy() on no      *)
(* interval timer is installed and no timer-driven flush happens.          *)
C13_OneSendNoTimer ==
    [][/\ \A w \in Waiters :
            (WaiterResumes(w) \/ WaiterWakes(w)) => handed'.via # "send"
       /\ destroyed' => ~flushIntervalId'
       /\ destroyed => ~Tick]_vars

\* a teardown event of the host reaches its handler
Teardown == PageUnload \/ BeforeExit \/ ProcessExit \/ Signal \/ UncaughtException

(* C14: at a page unload with a cached endpoint, the buffered entries are  *)
(* handed to sendBeacon when the host has it, and to the synchronous XHR   *)
(* when the host has no beacon or the beacon attempt failed: in a browser, *)
(* which has XMLHttpRequest, they are always handed to one of the two.     *)
C14_BeaconThenXHR ==
    [][(PageUnload /\ queue # <<>> /\ cachedIngestUrl /\ host.xhr) =>
          /\ handed'.batch = queue
          /\ handed'.via \in (IF host.beacon THEN {"beacon", "xhr"} ELSE {"xhr"})]_vars

(* C15: a teardown handler of a host without sendBeacon and without        *)
(* XMLHttpRequest hands the entries it detached to Transport.send.         *)
C15_LastResortSend ==
    [][(Teardown /\ drains' > 0 /\ ~host.beacon /\ ~host.xhr /\ queue # <<>>)
          => handed' = Tx("send", queue)]_vars

(* C16: after a step in which a teardown handler has run                  *)
(* flushWithBeacon() or flushSync() (drains counts these runs), the buffer *)
(* is empty, whichever fallback was used and whether or not it transmitted *)
(* anything.                                                               *)
C16_DetachesAll ==
    [][drains' > 0 => queue' = <<>>]_vars

\* flushSync() ran while a flush was in flight and detached two entries
C16_Witness ==
    /\ drains = 1
    /\ queue = <<>>
    /\ inFlight # <<>>
    /\ handed.via \in {"xhr", "none"}
    /\ nextId - 1 - Len(inFlight[1].batch) >= 2
    /\ ~cachedIngestUrl

(* C17: nothing is thrown out of a teardown handler.                       *)
C17_TeardownNeverRaises ==
    [][Teardown => escaped' = "none"]_vars

(* C18: each teardown event runs the draining (flushWithBeacon() or        *)
(* flushSync()) exactly once.                                              *)
C18_OneDrainPerEvent ==
    [][Teardown => drains' = 1]_vars

(* C19: add() throws nothing, and neither add() nor the handler it         *)
(* attaches to the flush it triggers leaves a promise rejection unhandled. *)
C19_AddNeverRaises ==
    [][(Add \/ AddCatchRuns) => escaped' = "none"]_vars

(* C20: addAsync(entry) returns the promise of a flush that hands the      *)
(* entry to Transport.send, so that the promise settles when that send     *)
(* has settled and not while the entry waits in the buffer.                *)
C20_AddAsyncSendsEntry ==
    [][AddAsync => (handed'.via = "send" /\ nextId \in Range(handed'.batch))]_vars

-----------------------------------------------------------------------------
(* C21: when the Transport.send of a batch started by addAsync() or        *)
(* flush() fails, the promise returned to that caller rejects.             *)
C21_FailureReachesWaitingCaller ==
    [][\A i \in 1..Len(inFlight) :
          (SendFails(i) /\ inFlight[i].by.kind \in {"addAsync", "flush"})
              => escaped' = "caller"]_vars

\* the buffer that the flush() call of a step sees: add() and addAsync()
\* push their entry first
BufferAtCall == IF Add \/ AddAsync THEN Append(queue, nextId) ELSE queue

(* C22: a step that starts a flush hands the whole buffer of that moment   *)
(* to Transport.send, in its order, and leaves the buffer empty; an entry  *)
(* added while a flush is in flight joins no in-flight batch and stays in  *)
(* the buffer, which entries leave only by a later flush or a teardown.    *)
C22_DetachesWholeBuffer ==
    [][/\ handed'.via = "send" =>
            /\ handed'.batch = BufferAtCall
            /\ queue' = <<>>
            /\ inFlight' = Append(inFlight, [batch |-> BufferAtCall,
                                             by |-> inFlight'[Len(inFlight')].by])
       /\ ((Add \/ AddAsync) /\ isProcessing) =>
            /\ inFlight' = inFlight
            /\ queue' = Append(queue, nextId)
       /\ \A e \in Range(queue) \ Range(queue') :
            handed'.via = "send" \/ drains' > 0]_vars

\* two entries were sent as one batch and a third, added meanwhile, waits
C22_Witness ==
    /\ Len(inFlight) = 1
    /\ inFlight[1].batch = <<1, 2>>
    /\ queue = <<3>>
    /\ handed = NoTx

(* C23: flush() called while a flush is in flight or on an empty buffer    *)
(* makes no Transport.send and leaves the buffer, the in-flight flag, the  *)
(* batches in flight and the timer as they are.                            *)
C23_FlushNoOp ==
    [][(Flush /\ (isProcessing \/ queue = <<>>)) =>
          /\ handed' = NoTx
          /\ UNCHANGED <<queue, isProcessing, inFlight, flushIntervalId>>]_vars

\* a state in which flush() is a no-op on a buffer that is not empty
C23_Witness ==
    /\ isProcessing
    /\ Len(inFlight) = 1
    /\ Len(queue) = 2
    /\ handed = NoTx
    /\ flushIntervalId

(* C24: the step in which the Transport.send of a flush settles, with      *)
(* success or failure, under either profile and whatever onError does,     *)
(* leaves the in-flight flag false; on success the buffer is left as it    *)
(* was (nothing of the sent batch comes back).                             *)
C24_BackToIdle ==
    [][\A i \in 1..Len(inFlight) :
          /\ (SendSucceeds(i) \/ SendFails(i)) => ~isProcessing'
          /\ SendSucceeds(i) => queue' = queue]_vars

\* a send failed under an onError that throws, and the flag is down
C24_Witness ==
    /\ onErrorCfg = "throws"
    /\ reported # <<>>
    /\ escaped = "caller"
    /\ ~isProcessing
    /\ inFlight = <<>>

(* C25 as claimed: the buffer grows only in add() / addAsync() and shrinks *)
(* only in a step that starts a flush or runs a teardown handler.          *)
C25_GrowsOnlyByAdd ==
    [][/\ Len(queue') > Len(queue) => (Add \/ AddAsync)
       /\ Len(queue') < Len(queue) => (handed'.via = "send" \/ drains' > 0)]_vars

(* C25: the buffer grows only in add() / addAsync(), by one entry, or,     *)
(* under a Persistent profile, by at most 3 entries when a send fails and  *)
(* flush() requeues; it shrinks only in a step that starts a flush or runs *)
(* a teardown handler.                                                     *)
C25_GrowsByAddOrRequeue ==
    [][/\ Len(queue') > Len(queue) =>
            \/ (Add \/ AddAsync) /\ Len(queue') = Len(queue) + 1
            \/ /\ \E i \in 1..Len(inFlight) : SendFails(i)
               /\ ~isServerlessEnvironment
               /\ Len(queue') <= Len(queue) + 3
       /\ Len(queue') < Len(queue) => (handed'.via = "send" \/ drains' > 0)]_vars

\* a batch of four failed: three came back in front of the entry added since
C25_Witness ==
    /\ queue = <<1, 2, 3, 5>>
    /\ reported = <<>>
    /\ onErrorCfg = "none"
    /\ inFlight = <<>>
    /\ ~isProcessing
    /\ cachedIngestUrl

(* C26: the host profile is the one detectEnvironment() computes for the   *)
(* host, the same in every state; under an Ephemeral profile there is no   *)
(* interval timer in any state, under a Persistent profile there is one    *)
(* from construction until destroy() clears it.                            *)
C26_TimerIffPersistent ==
    /\ isServerlessEnvironment = DetectEnvironment(host)
    /\ flushIntervalId <=> (~isServerlessEnvironment /\ ~destroyed)

\* an Ephemeral host at work without a timer
C26_Witness ==
    /\ isServerlessEnvironment
    /\ ~flushIntervalId
    /\ ~destroyed
    /\ inFlight # <<>>
    /\ queue # <<>>

-----------------------------------------------------------------------------
(* Claims about serializeObject().  The walks below follow the returned   *)
(* tree and the input graph side by side: out is the node returned for    *)
(* value, which was reached at depth along the objects of path.           *)

RECURSIVE BackEdgesMarked(_, _, _)
BackEdgesMarked(out, value, path) ==
    IF value.k = "ref" /\ value.n \in path
    THEN out.t = "circular"
    ELSE IF out.t \in {"obj", "arr"}
    THEN \A i \in 1..Len(out.kids) :
            BackEdgesMarked(out.kids[i], graph[value.n].kids[i], path \cup {value.n})
    ELSE TRUE

(* C27: serializeObject() returns for every graph, also one with a cycle   *)
(* (the call is one step of the model, its recursion ends at the circular  *)
(* check or at maxDepth); in what it returns, every edge that leads back   *)
(* to an object on the current recursion path is a circular marker.        *)
C27_CyclesMarked ==
    (result.done /\ ~result.raised) => BackEdgesMarked(result.out, Ref(1), {})

\* a cycle of two records, cut where it closes
C27_Witness ==
    /\ result.done
    /\ graph[1] = [kind |-> "Object", kids |-> <<Ref(2)>>]
    /\ graph[2] = [kind |-> "Object", kids |-> <<Ref(1), Ref(2)>>]
    /\ maxDepth = 2
    /\ result.out.kids[1].kids[1].t = "circular"
    /\ result.out.kids[1].kids[2].t = "circular"

\* no object reachable from object n along path lies on a cycle
RECURSIVE AcyclicFrom(_, _)
AcyclicFrom(n, path) ==
    \A i \in 1..Len(graph[n].kids) :
        LET kid == graph[n].kids[i] IN
          kid.k = "ref" =>
              /\ kid.n \notin path \cup {n}
              /\ AcyclicFrom(kid.n, path \cup {n})

RECURSIVE NoCircular(_)
NoCircular(out) ==
    /\ out.t # "circular"
    /\ \A i \in 1..Len(out.kids) : NoCircular(out.kids[i])

\* every reference to an object above maxDepth is converted with all its
\* values (a conversion that threw inside a record is that key's marker)
RECURSIVE InFull(_, _, _)
InFull(out, value, depth) ==
    IF value.k # "ref" \/ out.t = "propErr"
    THEN TRUE
    ELSE IF depth >= maxDepth
    THEN out.t = "maxDepth"
    ELSE /\ out.t = (IF graph[value.n].kind = "Array" THEN "arr" ELSE "obj")
         /\ Len(out.kids) = Len(graph[value.n].kids)
         /\ \A i \in 1..Len(out.kids) :
               InFull(out.kids[i], graph[value.n].kids[i], depth + 1)

(* C28: for an acyclic graph, also one in which an object is referenced    *)
(* more than once, the returned tree holds no circular marker and every    *)
(* reference to an object is converted in full.                            *)
C28_OnlyPathCycles ==
    (result.done /\ ~result.raised /\ AcyclicFrom(1, {})) =>
        /\ NoCircular(result.out)
        /\ InFull(result.out, Ref(1), 0)

\* one record referenced by two siblings
C28_Witness ==
    /\ result.done
    /\ graph[1] = [kind |-> "Array", kids |-> <<Ref(2), Ref(2)>>]
    /\ graph[2] = [kind |-> "Object", kids |-> <<Leaf("p")>>]
    /\ maxDepth = 2
    /\ result.out = Out("arr", "", 0, <<Out("obj", "", 0, <<Prim>>),
                                         Out("obj", "", 0, <<Prim>>)>>)

\* the nesting depth of a returned tree
RECURSIVE Height(_)
Height(out) ==
    IF out.t = "prim" THEN 0
    ELSE 1 + (IF out.kids = <<>> THEN 0
              ELSE LET hs == {Height(out.kids[i]) : i \in 1..Len(out.kids)}
                   IN CHOOSE h \in hs : \A g \in hs : g <= h)

RECURSIVE DepthMarked(_, _, _)
DepthMarked(out, value, depth) ==
    IF value.k = "p"
    THEN TRUE
    ELSE IF depth >= maxDepth
    THEN out = MaxDepthExceeded(ConstructorName(value))
    ELSE IF out.t \in {"obj", "arr"}
    THEN \A i \in 1..Len(out.kids) :
            DepthMarked(out.kids[i], graph[value.n].kids[i], depth + 1)
    ELSE TRUE

(* C29 as claimed: every object or array reached at depth maxDepth is      *)
(* replaced by a depth-exceeded marker with its constructor name, and the  *)
(* nesting depth of the returned tree is at most maxDepth + 1.             *)
C29_DepthBound ==
    (result.done /\ ~result.raised) =>
        /\ DepthMarked(result.out, Ref(1), 0)
        /\ Height(result.out) <= maxDepth + 1

\* the nesting depth without what custom serializers returned
RECURSIVE HeightSerialized(_)
HeightSerialized(out) ==
    IF out.t = "prim" THEN 0
    ELSE IF out.t = "custom" THEN 1
    ELSE 1 + (IF out.kids = <<>> THEN 0
              ELSE LET hs == {HeightSerialized(out.kids[i]) : i \in 1..Len(out.kids)}
                   IN CHOOSE h \in hs : \A g \in hs : g <= h)

RECURSIVE DepthMarkedOffPath(_, _, _, _)
DepthMarkedOffPath(out, value, depth, path) ==
    IF value.k = "p" \/ (value.k = "ref" /\ value.n \in path)
    THEN TRUE
    ELSE IF depth >= maxDepth
    THEN out = MaxDepthExceeded(ConstructorName(value))
    ELSE IF out.t \in {"obj", "arr"}
    THEN \A i \in 1..Len(out.kids) :
            DepthMarkedOffPath(out.kids[i], graph[value.n].kids[i], depth + 1,
                               path \cup {value.n})
    ELSE TRUE

(* C29: every object or array reached at depth maxDepth that is not on    *)
(* the current recursion path (an object on the path is a circular marker *)
(* at any depth) is replaced by a depth-exceeded marker with its           *)
(* constructor name; apart from what a custom serializer returned, the     *)
(* nesting depth of the returned tree is at most maxDepth + 1.             *)
C29_DepthBoundOffPath ==
    (result.done /\ ~result.raised) =>
        /\ DepthMarkedOffPath(result.out, Ref(1), 0, {})
        /\ HeightSerialized(result.out) <= maxDepth + 1

\* a chain of two objects cut at depth 1
C29_Witness ==
    /\ result.done
    /\ maxDepth = 1
    /\ graph[1] = [kind |-> "Object", kids |-> <<Ref(2), Leaf("p")>>]
    /\ graph[2] = [kind |-> "Array", kids |-> <<Leaf("p")>>]
    /\ result.out = Out("obj", "", 0, <<MaxDepthExceeded("Array"), Prim>>)

(* C30: serializeObject() returns a value for every input; it never       *)
(* throws.                                                                 *)
C30_NeverRaises == ~result.raised


(* C38: in every reachable state the buffer is in arrival order (entry    *)
(* ids ascend) and so holds no entry twice, and no entry is both in the    *)
(* buffer and in a batch in flight.                                        *)
C38_OrderedAndDisjoint ==
    /\ \A i \in 1..Len(queue), j \in 1..Len(queue) : i < j => queue[i] < queue[j]
    /\ \A i \in 1..Len(queue) : ~Sending(queue[i])

\* the batch of entries 1 and 2 failed after entry 3 was added: the two
\* are back in front of it
C38_Witness ==
    /\ reported = << <<1, 2>> >>
    /\ queue = <<1, 2, 3>>
    /\ inFlight = <<>>


(* C39: a teardown handler that runs while a flush is in flight hands to   *)
(* the beacon or the synchronous request nothing but the buffer of that    *)
(* moment, and leaves the batch in flight and the in-flight flag as they   *)
(* are.                                                                    *)
C39_TeardownLeavesInFlight ==
    [][(drains' > 0 /\ isProcessing) =>
          /\ inFlight' = inFlight
          /\ isProcessing'
          /\ handed' \in {NoTx, Tx("beacon", queue), Tx("xhr", queue)}]_vars

\* a page unload while a batch is in flight: the beacon carried the buffer
C39_Witness ==
    /\ drains = 1
    /\ isProcessing
    /\ Len(inFlight) = 1
    /\ handed.via = "beacon"
    /\ handed.batch # <<>>
    /\ queue = <<>>


\* the step before this state was a failed send whose batch onError got
\* (under a callback that returns, nothing else reports a batch)
JustFailed == onErrorCfg = "returns" /\ reported # <<>> /\ reported[1] # <<>>

\* the entries in the buffer or in flight after the step
HeldAfter == Range(queue') \cup UNION {Range(inFlight'[i].batch) : i \in 1..Len(inFlight')}

\* entry e was accepted and is neither in the buffer nor in flight
Gone(e) == e < nextId /\ e \notin Range(queue) /\ ~Sending(e)

\* after a failed send: the entries from position 4 on are gone and, under
\* a Persistent profile, the first three are in the buffer
AfterFailure ==
    JustFailed =>
        LET batch == reported[1] IN
          /\ \A k \in 4..Len(batch) : Gone(batch[k])
          /\ ~isServerlessEnvironment =>
                \A k \in 1..Min(3, Len(batch)) : batch[k] \in Range(queue)

\* an entry that is gone does not come back: what is held after a step was
\* held before it or is the entry that the step accepted
StaysGone ==
    \A e \in HeldAfter : e = nextId \/ e \in Range(queue) \/ Sending(e)

RECURSIVE Markers(_, _)
Markers(out, value) ==
    IF out.t = "circular"
    THEN {<<value.n, out.ref>>}
    ELSE IF out.t \in {"obj", "arr"}
    THEN UNION {Markers(out.kids[i], graph[value.n].kids[i]) : i \in 1..Len(out.kids)}
    ELSE {}

(* C35: within one serializeObject() call all circular markers emitted for *)
(* the same object carry the same ref id.                                  *)
C35_StableRefIds ==
    (result.done /\ ~result.raised) =>
        \A a \in Markers(result.out, Ref(1)), b \in Markers(result.out, Ref(1)) :
            a[1] = b[1] => a[2] = b[2]

\* the second record refers to itself twice: both markers carry the first
\* id given in the call
C35_Witness ==
    /\ result.done
    /\ maxDepth = 2
    /\ graph[1] = [kind |-> "Object", kids |-> <<Ref(2)>>]
    /\ graph[2] = [kind |-> "Object", kids |-> <<Ref(2), Ref(2)>>]
    /\ result.out = Out("obj", "", 0, <<Out("obj", "", 0, <<Circular(1), Circular(1)>>)>>)


\* in every record of the returned tree, a key whose conversion throws is
\* a PropertyAccessError marker and every other key is converted
RECURSIVE Confined(_, _, _, _)
Confined(out, value, depth, seen) ==
    IF out.t \notin {"obj", "arr"}
    THEN TRUE
    ELSE LET node == graph[value.n]
             inside == seen \cup {value.n}
         IN /\ Len(out.kids) = Len(node.kids)
            /\ \A i \in 1..Len(node.kids) :
                  IF serialize(node.kids[i], depth + 1, inside, <<>>).ok
                  THEN /\ out.kids[i].t # "propErr"
                       /\ Confined(out.kids[i], node.kids[i], depth + 1, inside)
                  ELSE out.t = "obj" /\ out.kids[i] = PropertyAccessError

(* C33: a failure while one property of a record is converted is confined  *)
(* to that key: its value is an access-error marker, every other key of    *)
(* the record is converted, and the conversion of the record is not        *)
(* aborted.                                                                *)
C33_FailureConfined ==
    result.done =>
        /\ graph[1].kind = "Object" => ~result.raised
        /\ ~result.raised => Confined(result.out, Ref(1), 0, {})

\* a record whose first value is a Date that cannot be converted
C33_Witness ==
    /\ result.done
    /\ maxDepth = 2
    /\ graph[1] = [kind |-> "Object", kids |-> <<Leaf("bad"), Leaf("p")>>]
    /\ result.out = Out("obj", "", 0, <<PropertyAccessError, Prim>>)


\* a returned tree made of serializer output only: primitives, arrays and
\* records that serialize() built, and no value of the input
RECURSIVE Encodable(_)
Encodable(out) ==
    /\ out.t # "raw"
    /\ \A i \in 1..Len(out.kids) : Encodable(out.kids[i])

(* C31: the tree that serializeObject() returns consists of primitives,    *)
(* arrays and plain records only; it holds no reference to an object of    *)
(* the input, also under values that a custom serializer produced.         *)
C31_JSONEncodable ==
    (result.done /\ ~result.raised) => Encodable(result.out)


\* a returned value has the shape of the input value: a record has the
\* same keys, an array the same length, and their values are the same
RECURSIVE Same(_, _)
Same(val, value) ==
    IF value.k = "p"
    THEN val = PrimVal
    ELSE LET node == graph[value.n] IN
           /\ val.t = (IF node.kind = "Array" THEN "arr" ELSE "obj")
           /\ node.kind = "Object" => val.keys = KeysOf(Len(node.kids))
           /\ Len(val.kids) = Len(node.kids)
           /\ \A i \in 1..Len(node.kids) : Same(val.kids[i], node.kids[i])

(* C32: for every acyclic graph of plain records, arrays and primitives    *)
(* whose depth is below maxDepth, whatever its key names,                  *)
(* deserializeObject(serializeObject(v)) has the key sets and the values   *)
(* of v.                                                                   *)
C32_RoundTrip ==
    restored.done => Same(restored.value, Ref(1))


(* C34: the metadata of every LogEntry that the logging API gives to the   *)
(* queue holds serializer output only: no value of the per-call context    *)
(* and no value stored through setContext / addContext is in it raw.       *)
C34_MetadataSerialized ==
    \A p \in metadata : Encodable(p[2])


(* C36: Transport.send makes at most maxRetries transmission attempts for  *)
(* one batch, makes none after a successful one, and its promise resolves  *)
(* if and only if some attempt succeeded.                                  *)
C36_ResolvesIffSent ==
    /\ sending.sent <= maxRetriesCfg
    /\ sending.won => sending.pc = "resolved"
    /\ sending.pc = "resolved" => sending.won

(* C37: resolveIngestUrl() starts a discovery exchange only when no URL is *)
(* cached or the cached one is older than endpointCacheDuration, and       *)
(* otherwise leaves the cache as it is; cachedIngestUrl and                 *)
(* lastEndpointFetch change only in the step in which a discovery exchange *)
(* ends with a successful answer, which is the only way the URL that the   *)
(* teardown beacon / XHR reads gets set.                                   *)
C37_CacheDiscipline ==
    [][/\ io' = "discovery" =>
             (~cachedIngestUrl \/ now - lastEndpointFetch > CacheDuration)
       /\ (cachedIngestUrl' # cachedIngestUrl \/ lastEndpointFetch' # lastEndpointFetch) =>
             /\ sending.pc = "resolving" /\ sending'.pc # "rejected"
             /\ cachedIngestUrl'
             /\ lastEndpointFetch' = sending.nowAtCall]_vars

\* a send() called when the cached URL is exactly endpointCacheDuration old
\* goes to its first attempt without a discovery exchange
C37_Witness ==
    /\ cachedIngestUrl
    /\ lastEndpointFetch = 0
    /\ now = CacheDuration
    /\ io = "transmit"
    /\ sending.pc = "posting"
    /\ sending.attempt = 1


====
